---------------------------- MODULE Spec2Model ----------------------------
(***************************************************************************)
(* Darray<T> (src/Darray.hpp): a std::list<T> holding the elements and a   *)
(* heap-allocated array of list iterators, `addresses`, giving positional  *)
(* access.  Two Darray objects are modelled so that copy and move can be   *)
(* exercised; a run makes a bounded number of calls.                       *)
(*                                                                         *)
(* A list node is identified by its address (Addr); `heap` gives the value *)
(* stored in each node (Free when the node is not allocated).  `data[c]`   *)
(* is the list of container c in traversal order, as a sequence of node    *)
(* addresses.  `tab[c]` is the array that `addresses` points to: slot i of *)
(* the code is tab[c][i+1], and Len(tab[c]) is the allocated length.       *)
(*                                                                         *)
(* Undefined behaviour.  An access to a slot outside the allocated array   *)
(* (or through a deleted array) is undefined: a read yields the            *)
(* indeterminate value Ind, a write is not recorded in the array, and the  *)
(* program may terminate abnormally at that point (crashed).  Following an *)
(* iterator that is Ind reaches any node of the list or terminates the     *)
(* program; following one that is not a node of the list terminates it.    *)
(***************************************************************************)
EXTENDS Integers, Sequences, FiniteSets, TLC

\* ---- bounds of the model ----
MaxLen == 3        \* add operations are taken only while size() < MaxLen
MaxOps == 3        \* calls in a run on one container (Spec)
MaxPairOps == 3    \* calls in a run on two containers (SpecPair)
SizeBits == 16     \* modelled width of size_t
NAddr == MaxLen + 1     \* list-node addresses the allocator hands out

\* ---- program constants ----
DefaultCapacity == 25   \* Darray(const size_t defaultCapacity = 25)
AddAtGrowth == 25       \* resizeAddressTable(maxSize + 25) in addAt

Cont == {1, 2}
Val == {1, 2}
Cmps == {"less", "greater"}   \* comparators passed to sort
SizeMod == 2 ^ SizeBits
Wrap(x) == x % SizeMod   \* size_t arithmetic
Addr == 1..NAddr
Null == 0          \* a default-constructed (singular) list iterator
Ind == -1          \* an indeterminate iterator value
Free == 0          \* heap[h] of a node that is not allocated
Slots == Addr \cup {Null, Ind}
CapChoices == {0, 1, DefaultCapacity}
Batches == UNION {[1..n -> Val] : n \in 0..2}   \* initializer lists
Pos == 0..(MaxLen + 1)

VARIABLES
    alive,     \* alive[c]: the object exists (constructed, not yet destroyed)
    index,     \* Darray::index   (size())
    maxSize,   \* Darray::maxSize (capacity)
    data,      \* Darray::data    (node addresses in traversal order)
    tab,       \* the array Darray::addresses points to
    ptr,       \* Darray::addresses itself: "valid", "null" or "dangling"
    heap,      \* node address -> stored value, or Free
    crashed,   \* the program terminated abnormally (undefined behaviour)
    last,      \* the last call made and how it ended
    left       \* calls the run may still make

vars == <<alive, index, maxSize, data, tab, ptr, heap, crashed, last, left>>

Min(a, b) == IF a < b THEN a ELSE b
Range(s) == {s[i] : i \in 1..Len(s)}
Nodes(c) == Range(data[c])
FreeAddr == {h \in Addr : heap[h] = Free}
\* the node allocator hands out the lowest address of F
LowestFree(F) == CHOOSE h \in F : \A g \in F : h <= g
RECURSIVE AllocSeq(_, _)
\* the addresses of n nodes allocated one after the other from F
AllocSeq(F, n) ==
    IF n = 0 THEN <<>>
    ELSE <<LowestFree(F)>> \o AllocSeq(F \ {LowestFree(F)}, n - 1)
NewAddr == LowestFree(FreeAddr)
\* std::list::erase(h) and std::list::insert(position p, node h)
Without(s, h) == SelectSeq(s, LAMBDA x : x # h)
InsertAt(s, p, h) == SubSeq(s, 1, p) \o <<h>> \o SubSeq(s, p + 1, Len(s))
\* the nodes an iterator value x can lead to in list d
Targets(d, x) == IF x = Ind THEN Range(d) ELSE Range(d) \cap {x}
\* the heap after the nodes hs are given the values vs, and after nodes are freed
Store(hp, hs, vs) ==
    [h \in Addr |-> IF \E j \in 1..Len(hs) : hs[j] = h
                    THEN vs[CHOOSE j \in 1..Len(hs) : hs[j] = h]
                    ELSE hp[h]]
Release(hp, S) == [h \in Addr |-> IF h \in S THEN Free ELSE hp[h]]
\* the element values of container c in traversal order (begin() .. end())
Values(c) == [i \in 1..Len(data[c]) |-> heap[data[c][i]]]

\* addresses[i] read from array t
SlotOf(t, i) == IF i < Len(t) THEN t[i + 1] ELSE Ind
\* addresses[i] = x written to array t
WriteSlot(t, i, x) == IF i < Len(t) THEN [t EXCEPT ![i + 1] = x] ELSE t
\* new std::list<T>::iterator[n]
NewTab(n) == [j \in 1..n |-> Null]
\* whether operator new[] succeeds, when the call reaches it
NewCases(reached) == IF reached THEN BOOLEAN ELSE {TRUE}

\* the call made (v: the value passed or returned; for addAll and the
\* initializer-list constructor the list of values passed) and how it ended
Call(op, c, p, v, res) == [op |-> op, c |-> c, p |-> p, v |-> v, res |-> res]
Step(rec) == left > 0 /\ left' = left - 1 /\ last' = rec

\* the fields of container c become idx, cap, d, t, pt and the heap hp
Fields(c, idx, cap, d, t, pt, hp) ==
    /\ index' = [index EXCEPT ![c] = idx]
    /\ maxSize' = [maxSize EXCEPT ![c] = cap]
    /\ data' = [data EXCEPT ![c] = d]
    /\ tab' = [tab EXCEPT ![c] = t]
    /\ ptr' = [ptr EXCEPT ![c] = pt]
    /\ heap' = hp

\* the call returns (or throws) with only container c changed
Commit(c, rec, idx, cap, d, t, pt, hp) ==
    /\ Step(rec)
    /\ Fields(c, idx, cap, d, t, pt, hp)
    /\ UNCHANGED <<alive, crashed>>

\* the call returns or throws without having changed anything
Throw(rec) ==
    /\ Step(rec)
    /\ UNCHANGED <<alive, index, maxSize, data, tab, ptr, heap, crashed>>

\* undefined behaviour ends the program
Fault(rec) ==
    /\ Step(rec)
    /\ crashed' = TRUE
    /\ UNCHANGED <<alive, index, maxSize, data, tab, ptr, heap>>

Running(c) == ~crashed /\ alive[c]

\* ---- resizeAddressTable (Darray.hpp 29-38) ----
\* the new array: the first min(newSize, index) slots copied, the rest fresh
ResizedTab(t, idx, newSize) ==
    [j \in 1..newSize |->
        IF j <= Min(newSize, idx) THEN SlotOf(t, j - 1) ELSE Null]
\* the copy loop reads outside the old array, or delete[] meets a deleted array
ResizeUB(c, idx, newSize) ==
    \/ Min(newSize, idx) > Len(tab[c])
    \/ ptr[c] = "dangling"

\* ---- rebuildAllAddresses (Darray.hpp 41-46) ----
RebuiltTab(t, d) == [j \in 1..Len(t) |-> IF j <= Len(d) THEN d[j] ELSE t[j]]

\* ---- Darray(const size_t) (Darray.hpp 51-53) ----
Construct(c, cap, ok) ==
    /\ ~crashed /\ ~alive[c]
    /\ IF ok
       THEN /\ Step(Call("Darray", c, cap, 0, "ok"))
            /\ alive' = [alive EXCEPT ![c] = TRUE]
            /\ Fields(c, 0, cap, <<>>, NewTab(cap), "valid", heap)
            /\ UNCHANGED crashed
       ELSE Throw(Call("Darray", c, 0, 0, "bad_alloc"))

\* ---- Darray(const std::initializer_list<T>&) (Darray.hpp 69-71) ----
ConstructList(c, vals, ok) ==
    /\ ~crashed /\ ~alive[c]
    /\ Cardinality(FreeAddr) >= Len(vals)
    /\ LET hs == AllocSeq(FreeAddr, Len(vals))
       IN IF ok
          THEN /\ Step(Call("DarrayList", c, Len(vals), vals, "ok"))
               /\ alive' = [alive EXCEPT ![c] = TRUE]
               /\ Fields(c, Len(vals), Len(vals), hs,
                         RebuiltTab(NewTab(Len(vals)), hs), "valid",
                         Store(heap, hs, vals))
               /\ UNCHANGED crashed
          ELSE Throw(Call("DarrayList", c, 0, 0, "bad_alloc"))

\* ---- ~Darray (Darray.hpp 73) ----
Destroy(c) ==
    /\ Running(c)
    /\ \/ /\ Step(Call("~Darray", c, 0, 0, "ok"))
          /\ alive' = [alive EXCEPT ![c] = FALSE]
          /\ Fields(c, 0, 0, <<>>, <<>>, "null", Release(heap, Nodes(c)))
          /\ UNCHANGED crashed
       \/ /\ ptr[c] = "dangling"
          /\ Fault(Call("~Darray", c, 0, 0, "fault"))

\* An append in the other order, for contrast with add: the value is pushed
\* to the list before the table is grown, so a failed growth leaves the list
\* one element longer than size().
AddStoreFirst(c, v) ==
    /\ Running(c) /\ index[c] >= maxSize[c] /\ FreeAddr # {}
    /\ Commit(c, Call("add", c, 0, 0, "bad_alloc"), index[c], maxSize[c],
              Append(data[c], NewAddr), tab[c], ptr[c],
              [heap EXCEPT ![NewAddr] = v])

\* ---- add (Darray.hpp 166-183) ----
Add(c, v) ==
    /\ Running(c)
    /\ LET grow == index[c] >= maxSize[c]
           cap == IF grow THEN maxSize[c] * 2 ELSE maxSize[c]
           t1 == IF grow THEN ResizedTab(tab[c], index[c], cap) ELSE tab[c]
           h == NewAddr
       IN \E ok \in NewCases(grow) :
          IF ~ok
          THEN Throw(Call("add", c, 0, 0, "bad_alloc"))
          ELSE /\ index[c] < MaxLen /\ FreeAddr # {}
               /\ \/ Commit(c, Call("add", c, 0, v, "ok"),
                            index[c] + 1, cap, Append(data[c], h),
                            WriteSlot(t1, index[c], h),
                            IF grow THEN "valid" ELSE ptr[c],
                            [heap EXCEPT ![h] = v])
                  \/ /\ (grow /\ ResizeUB(c, index[c], cap)) \/ index[c] >= Len(t1)
                     /\ Fault(Call("add", c, 0, 0, "fault"))

\* the shift loops of addAt and of removeAt and remove
ShiftRight(t, p, n, h) ==
    [j \in 1..Len(t) |->
        IF j - 1 = p THEN h
        ELSE IF j - 1 > p /\ j - 1 <= n THEN SlotOf(t, j - 2) ELSE t[j]]
ShiftLeft(t, p, n) ==
    [j \in 1..Len(t) |->
        IF j - 1 >= p /\ j - 1 < n - 1 THEN SlotOf(t, j) ELSE t[j]]

\* An array-style insertion, for contrast with addAt: the new node goes to the
\* end of the list and the values are shifted through the existing nodes, so
\* the sequence is the same but the elements do not keep their addresses.
AddAtByValueShift(c, p, v) ==
    /\ Running(c)
    /\ p <= index[c] /\ index[c] < Min(MaxLen, Len(tab[c])) /\ FreeAddr # {}
    /\ LET h == NewAddr
           d == Append(data[c], h)
       IN Commit(c, Call("addAt", c, p, v, "ok"),
                 index[c] + 1, maxSize[c], d, WriteSlot(tab[c], index[c], h),
                 ptr[c], Store(heap, d, InsertAt(Values(c), p, v)))

\* ---- addAt (Darray.hpp 186-225) ----
AddAt(c, p, v) ==
    /\ Running(c)
    /\ IF p > index[c]
       THEN Throw(Call("addAt", c, p, 0, "out_of_range"))
       ELSE LET grow == index[c] + 1 > maxSize[c]
                cap == IF grow THEN maxSize[c] + AddAtGrowth ELSE maxSize[c]
                t1 == IF grow THEN ResizedTab(tab[c], index[c], cap) ELSE tab[c]
                h == NewAddr
            IN \E ok \in NewCases(grow) :
               IF ~ok
               THEN Throw(Call("addAt", c, p, 0, "bad_alloc"))
               ELSE /\ index[c] < MaxLen /\ FreeAddr # {}
                    /\ \/ Commit(c, Call("addAt", c, p, v, "ok"),
                                 index[c] + 1, cap, InsertAt(data[c], p, h),
                                 ShiftRight(t1, p, index[c], h),
                                 IF grow THEN "valid" ELSE ptr[c],
                                 [heap EXCEPT ![h] = v])
                       \/ /\ (grow /\ ResizeUB(c, index[c], cap))
                             \/ index[c] >= Len(t1)
                          /\ Fault(Call("addAt", c, p, 0, "fault"))

\* ---- addAll (Darray.hpp 228-236) ----
AddAll(c, vals) ==
    /\ Running(c)
    /\ LET n == Len(vals)
           grow == index[c] + n > maxSize[c]
           cap == IF grow THEN index[c] + n ELSE maxSize[c]
           t1 == IF grow THEN ResizedTab(tab[c], index[c], cap) ELSE tab[c]
           hs == AllocSeq(FreeAddr, n)
       IN \E ok \in NewCases(grow) :
          IF ~ok
          THEN Throw(Call("addAll", c, n, vals, "bad_alloc"))
          ELSE /\ index[c] + n <= MaxLen /\ Cardinality(FreeAddr) >= n
               /\ \/ Commit(c, Call("addAll", c, n, vals, "ok"),
                            index[c] + n, cap, data[c] \o hs,
                            [j \in 1..Len(t1) |->
                                IF j > index[c] /\ j <= index[c] + n
                                THEN hs[j - index[c]] ELSE t1[j]],
                            IF grow THEN "valid" ELSE ptr[c],
                            Store(heap, hs, vals))
                  \/ /\ (grow /\ ResizeUB(c, index[c], cap))
                        \/ (n > 0 /\ index[c] + n > Len(t1))
                     /\ Fault(Call("addAll", c, n, vals, "fault"))

\* A lenient read, for contrast with operator[]: a position past the end is
\* clamped to the last element instead of being refused.
GetClamped(c, p) ==
    /\ Running(c) /\ index[c] > 0
    /\ \E h \in Targets(data[c], SlotOf(tab[c], Min(p, index[c] - 1))) :
          Throw(Call("get", c, p, heap[h], "ok"))

\* ---- operator[] (Darray.hpp 239-256) ----
\* a read through the returned reference
Get(c, p) ==
    /\ Running(c)
    /\ IF p >= index[c]
       THEN Throw(Call("get", c, p, 0, "out_of_range"))
       ELSE LET x == SlotOf(tab[c], p)
            IN \/ \E h \in Targets(data[c], x) :
                    Throw(Call("get", c, p, heap[h], "ok"))
               \/ /\ x \notin Nodes(c)
                  /\ Fault(Call("get", c, p, 0, "fault"))

\* a write through the returned reference
Set(c, p, v) ==
    /\ Running(c)
    /\ IF p >= index[c]
       THEN Throw(Call("set", c, p, 0, "out_of_range"))
       ELSE LET x == SlotOf(tab[c], p)
            IN \/ \E h \in Targets(data[c], x) :
                    Commit(c, Call("set", c, p, v, "ok"), index[c], maxSize[c],
                           data[c], tab[c], ptr[c], [heap EXCEPT ![h] = v])
               \/ /\ x \notin Nodes(c)
                  /\ Fault(Call("set", c, p, 0, "fault"))

\* ---- remove (Darray.hpp 259-278) ----
Outcome(n, d, t, hp) == [n |-> n, d |-> d, t |-> t, hp |-> hp, fault |-> FALSE]
FaultOutcome == [n |-> 0, d |-> <<>>, t |-> <<>>, hp |-> <<>>, fault |-> TRUE]
RECURSIVE RemoveScan(_, _, _, _, _, _, _)
\* the ways the scan loop can end when it stands at loop counter i with
\* index n, list d, array t and heap hp
RemoveScan(i, n, d, t, hp, v, all) ==
    IF ~(i < n) THEN {Outcome(n, d, t, hp)}
    ELSE LET x == SlotOf(t, i)
             Erased(h) ==
                 (IF n > Len(t) THEN {FaultOutcome} ELSE {}) \cup
                 (IF ~all
                  THEN {Outcome(n - 1, Without(d, h), ShiftLeft(t, i, n),
                                [hp EXCEPT ![h] = Free])}
                  ELSE RemoveScan(Wrap(Wrap(i - 1) + 1), n - 1, Without(d, h),
                                  ShiftLeft(t, i, n), [hp EXCEPT ![h] = Free],
                                  v, all))
         IN (IF x \notin Range(d) THEN {FaultOutcome} ELSE {}) \cup
            UNION {IF hp[h] = v THEN Erased(h)
                   ELSE RemoveScan(Wrap(i + 1), n, d, t, hp, v, all) :
                   h \in Targets(d, x)}

Remove(c, v, all) ==
    /\ Running(c)
    /\ IF data[c] = <<>> \/ index[c] = 0
       THEN Throw(Call("remove", c, IF all THEN 1 ELSE 0, v, "ok"))
       ELSE \E o \in RemoveScan(0, index[c], data[c], tab[c], heap, v, all) :
               IF o.fault
               THEN Fault(Call("remove", c, IF all THEN 1 ELSE 0, v, "fault"))
               ELSE Commit(c, Call("remove", c, IF all THEN 1 ELSE 0, v, "ok"),
                           o.n, maxSize[c], o.d, o.t, ptr[c], o.hp)

\* ---- removeAt (Darray.hpp 281-295) ----
RemoveAt(c, p) ==
    /\ Running(c)
    /\ IF p >= index[c]
       THEN Throw(Call("removeAt", c, p, 0, "out_of_range"))
       ELSE LET x == SlotOf(tab[c], p)
            IN \/ \E h \in Targets(data[c], x) :
                    Commit(c, Call("removeAt", c, p, 0, "ok"),
                           index[c] - 1, maxSize[c], Without(data[c], h),
                           ShiftLeft(tab[c], p, index[c]), ptr[c],
                           [heap EXCEPT ![h] = Free])
               \/ /\ x \notin Nodes(c) \/ index[c] > Len(tab[c])
                  /\ Fault(Call("removeAt", c, p, 0, "fault"))

\* ---- clear (Darray.hpp 111) ----
Clear(c) ==
    /\ Running(c)
    /\ Commit(c, Call("clear", c, 0, 0, "ok"), 0, maxSize[c], <<>>, tab[c],
              ptr[c], Release(heap, Nodes(c)))

\* ---- shrinkToSize (Darray.hpp 298-304) ----
RECURSIVE ShrinkScan(_, _, _, _, _)
\* the ways the loop `while (index > newSize) data.erase(addresses[--index])`
\* can end when it stands at index n
ShrinkScan(n, newSize, d, t, hp) ==
    IF ~(n > newSize) THEN {Outcome(n, d, t, hp)}
    ELSE LET x == SlotOf(t, n - 1)
         IN (IF x \notin Range(d) THEN {FaultOutcome} ELSE {}) \cup
            UNION {ShrinkScan(n - 1, newSize, Without(d, h), t,
                              [hp EXCEPT ![h] = Free]) : h \in Targets(d, x)}

ShrinkToSize(c, newSize) ==
    /\ Running(c)
    /\ IF newSize >= index[c]
       THEN Throw(Call("shrinkToSize", c, newSize, 0, "ok"))
       ELSE \E o \in ShrinkScan(index[c], newSize, data[c], tab[c], heap),
               ok \in BOOLEAN :
               IF o.fault
               THEN Fault(Call("shrinkToSize", c, newSize, 0, "fault"))
               ELSE IF ~ok
               THEN Commit(c, Call("shrinkToSize", c, newSize, 0, "bad_alloc"),
                           o.n, maxSize[c], o.d, tab[c], ptr[c], o.hp)
               ELSE \/ Commit(c, Call("shrinkToSize", c, newSize, 0, "ok"),
                              o.n, newSize, o.d,
                              ResizedTab(tab[c], o.n, newSize), "valid", o.hp)
                    \/ /\ ResizeUB(c, o.n, newSize)
                       /\ Fault(Call("shrinkToSize", c, newSize, 0, "fault"))

\* ---- sort (Darray.hpp 123-129) ----
Before(cmp, a, b) == IF cmp = "less" THEN a < b ELSE a > b
\* the comparator as the call record names it
CmpNo(cmp) == IF cmp = "less" THEN 0 ELSE 1
RECURSIVE InsertSorted(_, _, _, _)
\* node h put into the sorted list s behind every node that does not come after it
InsertSorted(s, h, hp, cmp) ==
    IF s = <<>> THEN <<h>>
    ELSE IF Before(cmp, hp[h], hp[Head(s)]) THEN <<h>> \o s
    ELSE <<Head(s)>> \o InsertSorted(Tail(s), h, hp, cmp)
RECURSIVE SortList(_, _, _)
\* std::list::sort(cmp): a stable sort that relinks the nodes
SortList(d, hp, cmp) ==
    IF d = <<>> THEN <<>>
    ELSE InsertSorted(SortList(SubSeq(d, 1, Len(d) - 1), hp, cmp),
                      d[Len(d)], hp, cmp)

SortBy(c, cmp) ==
    /\ Running(c)
    /\ LET d == SortList(data[c], heap, cmp)
       IN \/ Commit(c, Call("sortBy", c, CmpNo(cmp), 0, "ok"), index[c], maxSize[c], d,
                    RebuiltTab(tab[c], d), ptr[c], heap)
          \/ /\ Len(d) > Len(tab[c])
             /\ Fault(Call("sortBy", c, CmpNo(cmp), 0, "fault"))

Sort(c) ==
    /\ Running(c)
    /\ LET d == SortList(data[c], heap, "less")
       IN \/ Commit(c, Call("sort", c, 0, 0, "ok"), index[c], maxSize[c], d,
                    RebuiltTab(tab[c], d), ptr[c], heap)
          \/ /\ Len(d) > Len(tab[c])
             /\ Fault(Call("sort", c, 0, 0, "fault"))

\* the fields of two containers change
Fields2(a, ia, ca, da, ta, pa, b, ib, cb, db, tb, pb, hp) ==
    /\ index' = [index EXCEPT ![a] = ia, ![b] = ib]
    /\ maxSize' = [maxSize EXCEPT ![a] = ca, ![b] = cb]
    /\ data' = [data EXCEPT ![a] = da, ![b] = db]
    /\ tab' = [tab EXCEPT ![a] = ta, ![b] = tb]
    /\ ptr' = [ptr EXCEPT ![a] = pa, ![b] = pb]
    /\ heap' = hp

\* ---- Darray(const Darray&) (Darray.hpp 55-58) ----
CopyConstruct(dst, src, ok) ==
    /\ dst # src /\ ~alive[dst] /\ Running(src)
    /\ Cardinality(FreeAddr) >= Len(data[src])
    /\ LET hs == AllocSeq(FreeAddr, Len(data[src]))
       IN IF ~ok
          THEN Throw(Call("copy", dst, src, 0, "bad_alloc"))
          ELSE \/ /\ Step(Call("copy", dst, src, 0, "ok"))
                  /\ alive' = [alive EXCEPT ![dst] = TRUE]
                  /\ Fields(dst, index[src], maxSize[src], hs,
                            RebuiltTab(NewTab(maxSize[src]), hs), "valid",
                            Store(heap, hs, Values(src)))
                  /\ UNCHANGED crashed
               \/ /\ Len(hs) > maxSize[src]
                  /\ Fault(Call("copy", dst, src, 0, "fault"))

\* ---- Darray(Darray&&) (Darray.hpp 60-67) ----
MoveConstruct(dst, src) ==
    /\ dst # src /\ ~alive[dst] /\ Running(src)
    /\ Step(Call("move", dst, src, 0, "ok"))
    /\ alive' = [alive EXCEPT ![dst] = TRUE]
    /\ Fields2(dst, index[src], maxSize[src], data[src], tab[src], ptr[src],
               src, 0, 0, <<>>, <<>>, "null", heap)
    /\ UNCHANGED crashed

\* ---- operator=(const Darray&) (Darray.hpp 133-145) ----
CopyAssign(dst, src, ok) ==
    /\ Running(dst) /\ alive[src]
    /\ IF dst = src
       THEN Throw(Call("copyAssign", dst, src, 0, "ok"))
       ELSE /\ Cardinality(FreeAddr \cup Nodes(dst)) >= Len(data[src])
            /\ LET hs == AllocSeq(FreeAddr \cup Nodes(dst), Len(data[src]))
                   hp == Store(Release(heap, Nodes(dst)), hs, Values(src))
               IN \/ /\ ~ok
                     /\ Commit(dst, Call("copyAssign", dst, src, 0, "bad_alloc"),
                               index[src], maxSize[src], hs, <<>>, "dangling", hp)
                  \/ /\ ok
                     /\ Commit(dst, Call("copyAssign", dst, src, 0, "ok"),
                               index[src], maxSize[src], hs,
                               RebuiltTab(NewTab(maxSize[src]), hs), "valid", hp)
                  \/ /\ ptr[dst] = "dangling" \/ (ok /\ Len(hs) > maxSize[src])
                     /\ Fault(Call("copyAssign", dst, src, 0, "fault"))

\* ---- operator=(Darray&&) (Darray.hpp 148-163) ----
MoveAssign(dst, src) ==
    /\ Running(dst) /\ alive[src]
    /\ IF dst = src
       THEN Throw(Call("moveAssign", dst, src, 0, "ok"))
       ELSE \/ /\ Step(Call("moveAssign", dst, src, 0, "ok"))
               /\ Fields2(dst, index[src], maxSize[src], data[src], tab[src],
                          ptr[src], src, 0, 0, <<>>, <<>>, "null",
                          Release(heap, Nodes(dst)))
               /\ UNCHANGED <<alive, crashed>>
            \/ /\ ptr[dst] = "dangling"
               /\ Fault(Call("moveAssign", dst, src, 0, "fault"))

\* ---- runs ----
\* container 1 as a constructor leaves it (Darray(cap), or Darray(vals) when
\* vals is not empty); container 2 is not yet constructed
InitWith(n) ==
    \E cap \in CapChoices, vals \in Batches :
        LET k == Len(vals)
            cap1 == IF k = 0 THEN cap ELSE k
        IN /\ alive = [c \in Cont |-> c = 1]
           /\ index = [c \in Cont |-> IF c = 1 THEN k ELSE 0]
           /\ maxSize = [c \in Cont |-> IF c = 1 THEN cap1 ELSE 0]
           /\ data = [c \in Cont |-> IF c = 1 THEN AllocSeq(Addr, k) ELSE <<>>]
           /\ tab = [c \in Cont |->
                       IF c = 1 THEN RebuiltTab(NewTab(cap1), AllocSeq(Addr, k))
                       ELSE <<>>]
           /\ ptr = [c \in Cont |-> IF c = 1 THEN "valid" ELSE "null"]
           /\ heap = Store([h \in Addr |-> Free], AllocSeq(Addr, k), vals)
           /\ crashed = FALSE
           /\ last = IF k = 0 THEN Call("Darray", 1, cap1, 0, "ok")
                      ELSE Call("DarrayList", 1, k, vals, "ok")
           /\ left = n

\* the calls on one container
Ops(c) ==
    \/ \E cap \in CapChoices, ok \in BOOLEAN : Construct(c, cap, ok)
    \/ \E vals \in Batches, ok \in BOOLEAN : ConstructList(c, vals, ok)
    \/ Destroy(c)
    \/ \E v \in Val : Add(c, v)
    \/ \E p \in Pos, v \in Val : AddAt(c, p, v)
    \/ \E vals \in Batches : AddAll(c, vals)
    \/ \E p \in Pos : Get(c, p)
    \/ \E p \in Pos, v \in Val : Set(c, p, v)
    \/ \E v \in Val, all \in BOOLEAN : Remove(c, v, all)
    \/ \E p \in Pos : RemoveAt(c, p)
    \/ Clear(c)
    \/ \E n \in Pos : ShrinkToSize(c, n)
    \/ Sort(c)
    \/ \E cmp \in Cmps : SortBy(c, cmp)

\* the calls that involve two containers
PairOps ==
    \/ \E dst \in Cont, src \in Cont, ok \in BOOLEAN : CopyConstruct(dst, src, ok)
    \/ \E dst \in Cont, src \in Cont : MoveConstruct(dst, src)
    \/ \E dst \in Cont, src \in Cont, ok \in BOOLEAN : CopyAssign(dst, src, ok)
    \/ \E dst \in Cont, src \in Cont : MoveAssign(dst, src)

Init == InitWith(MaxOps)
Next == Ops(1)
Spec == Init /\ [][Next]_vars

InitPair == InitWith(MaxPairOps)
NextPair == (\E c \in Cont : Ops(c)) \/ PairOps
SpecPair == InitPair /\ [][NextPair]_vars

\* ---- the claims ----
\* operator[](i) of c reads a slot that holds the i-th node of the list
Consistent(c) == \A i \in 0..(index[c] - 1) : SlotOf(tab[c], i) = data[c][i + 1]
\* the step is a call of one of ops on container c
Did(c, ops) == last'.c = c /\ last'.op \in ops

\* C1: after any sequence of the public mutations, for every i in [0, size())
\* slot i of the index table denotes the (i+1)-th element of the list, so
\* operator[](i) returns exactly that element.
C1_IndexMatchesStore == \A c \in Cont : alive[c] => Consistent(c)

\* C2: adding (add, addAt, addAll), removing (remove, removeAt, shrinkToSize)
\* or growing the index table never changes the node (address) of an element
\* that stays in the container nor the value stored in it; only positions
\* change: the elements kept stay in their relative order.
C2_AddressStability ==
    [][\A c \in Cont :
        /\ Did(c, {"add", "addAt", "addAll"})
           => /\ Nodes(c) \subseteq Nodes(c)'
              /\ SelectSeq(data'[c], LAMBDA h : h \in Nodes(c)) = data[c]
              /\ \A h \in Nodes(c) : heap'[h] = heap[h]
        /\ Did(c, {"remove", "removeAt", "shrinkToSize"})
           => /\ Nodes(c)' \subseteq Nodes(c)
              /\ SelectSeq(data[c], LAMBDA h : h \in Nodes(c)') = data'[c]
              /\ \A h \in Nodes(c)' : heap'[h] = heap[h]]_vars
\* an element was inserted in front of two others while the table grew
C2_Witness ==
    /\ last.op = "addAt" /\ last.res = "ok" /\ last.p = 0
    /\ index[1] = 3 /\ maxSize[1] > DefaultCapacity

\* C3: in every reachable state size() is at most the capacity.
C3_SizeWithinCapacity == \A c \in Cont : alive[c] => index[c] <= maxSize[c]

\* C4: a copy assignment that fails with an allocation failure leaves the
\* target as it was: same size, capacity, elements and a valid index table.
C4_CopyAssignStrongGuarantee ==
    [][\A c \in Cont :
        (Did(c, {"copyAssign"}) /\ last'.res = "bad_alloc")
        => /\ index'[c] = index[c] /\ maxSize'[c] = maxSize[c]
           /\ Values(c)' = Values(c)
           /\ ptr'[c] = ptr[c] /\ tab'[c] = tab[c]]_vars

\* C5: a moved-from container behaves as a freshly constructed empty one:
\* size() is 0, operator[] and removeAt signal out-of-bounds, and add, addAt
\* and addAll succeed and leave exactly the added elements, in order, readable
\* through operator[].
MovedFrom(c) ==
    /\ last.op \in {"move", "moveAssign"} /\ last.res = "ok"
    /\ last.p = c /\ last.c # c
C5_MovedFromIsFresh ==
    [][\A c \in Cont : MovedFrom(c) =>
        /\ index[c] = 0
        /\ Did(c, {"get", "set", "removeAt"}) => last'.res = "out_of_range"
        /\ (Did(c, {"add", "addAt", "addAll"})
              /\ last'.res \notin {"bad_alloc", "out_of_range"})
           => /\ last'.res = "ok"
              /\ index'[c] = Len(data'[c])
              /\ index'[c] = (IF last'.op = "addAll" THEN last'.p ELSE 1)
              /\ Consistent(c)']_vars

\* C6: after move construction or move assignment from `original` into
\* `moved`, original has size 0 and capacity 0, and moved has exactly
\* original's prior elements in the prior order: moved.size() is the prior
\* size and moved[i] is the prior i-th element.
C6_MoveTransfers ==
    [][\A moved \in Cont, original \in Cont :
        (Did(moved, {"move", "moveAssign"}) /\ last'.p = original
            /\ moved # original /\ last'.res = "ok")
        => /\ index'[original] = 0 /\ maxSize'[original] = 0
           /\ index'[moved] = index[original]
           /\ data'[moved] = data[original]
           /\ \A h \in Nodes(original) : heap'[h] = heap[h]
           /\ \A i \in 0..(index[original] - 1) :
                  SlotOf(tab'[moved], i) = data[original][i + 1]]_vars

\* C7: immediately after copy construction or copy assignment the copy has
\* the original's size and copy[i] == original[i] for all i; afterwards a
\* mutation of one of the two never changes the size, elements or order of
\* the other.
C7_CopyIsDeepAndEqual ==
    [][\A copy \in Cont, original \in Cont :
        /\ (Did(copy, {"copy", "copyAssign"}) /\ last'.p = original
              /\ copy # original /\ last'.res = "ok")
           => /\ index'[copy] = index[original]
              /\ Values(copy)' = Values(original)
              /\ Nodes(copy)' \cap Nodes(original)' = {}
              /\ Consistent(copy)' /\ Consistent(original)
        /\ (Did(copy, {"add", "addAt", "addAll", "remove", "removeAt", "sort",
                       "sortBy", "clear", "set", "shrinkToSize"})
              /\ copy # original)
           => /\ index'[original] = index[original]
              /\ data'[original] = data[original]
              /\ Values(original)' = Values(original)
              /\ tab'[original] = tab[original]]_vars

\* C8: operator[](p) and removeAt(p) with p >= size(), and addAt(p, v) with
\* p > size(), signal out_of_range and leave size, capacity, the elements and
\* the index table unchanged; no invalid position is clamped or corrected.
C8_OutOfRangeRejected ==
    [][\A c \in Cont :
        (\/ Did(c, {"get", "set", "removeAt"}) /\ last'.p >= index[c]
         \/ Did(c, {"addAt"}) /\ last'.p > index[c])
        => /\ last'.res = "out_of_range"
           /\ UNCHANGED <<alive, index, maxSize, data, tab, ptr, heap, crashed>>]_vars
\* operator[](size()) was refused on a container that holds elements
C8_Witness ==
    /\ last.op = "get" /\ last.res = "out_of_range"
    /\ last.p = index[1] /\ index[1] > 0

\* C9: addAt(p, v) with p <= size() on a container holding s yields
\* s[0..p) ++ [v] ++ s[p..size): size grows by one, v is at position p, the
\* elements formerly at positions >= p are one position higher, those before
\* p keep their positions; with p == size() the result is that of add(v).
C9_AddAtInserts ==
    [][\A c \in Cont, p \in Pos :
        (Did(c, {"addAt"}) /\ last'.p = p /\ p <= index[c]
            /\ last'.res # "bad_alloc")
        => /\ last'.res = "ok"
           /\ index'[c] = index[c] + 1
           /\ Values(c)' = InsertAt(Values(c), p, last'.v)
           /\ \A i \in 0..index[c] :
                 /\ i < p => SlotOf(tab'[c], i) = data[c][i + 1]
                 /\ i = p => SlotOf(tab'[c], i) = data'[c][p + 1]
                 /\ i > p => SlotOf(tab'[c], i) = data[c][i]]_vars

\* C10: removeAt(p) with p < size() yields s[0..p) ++ s[p+1..size): size
\* shrinks by one, exactly the element at position p is erased, the elements
\* after p move one position lower, those before p keep their positions, and
\* the capacity is unchanged.
C10_RemoveAtErases ==
    [][\A c \in Cont, p \in Pos :
        (Did(c, {"removeAt"}) /\ last'.p = p /\ p < index[c])
        => /\ last'.res = "ok"
           /\ index'[c] = index[c] - 1 /\ maxSize'[c] = maxSize[c]
           /\ data'[c] = SubSeq(data[c], 1, p) \o SubSeq(data[c], p + 2, Len(data[c]))
           /\ heap' = [heap EXCEPT ![data[c][p + 1]] = Free]
           /\ \A i \in 0..(index[c] - 2) :
                 SlotOf(tab'[c], i) = data[c][IF i < p THEN i + 1 ELSE i + 2]]_vars

\* the position (from 1) of the first element of vs equal to v, 0 when none is
FirstOf(vs, v) ==
    IF \E i \in 1..Len(vs) : vs[i] = v
    THEN CHOOSE i \in 1..Len(vs) : vs[i] = v /\ \A j \in 1..(i - 1) : vs[j] # v
    ELSE 0

\* C11: remove(v) with the all-occurrences flag false erases exactly the first
\* element equal to v and nothing else: the other elements, later occurrences
\* of v included, remain in their order and size drops by one; when no element
\* equals v, or the container is empty, size, capacity and the sequence are
\* unchanged.
C11_RemoveFirst ==
    [][\A c \in Cont :
        (Did(c, {"remove"}) /\ last'.p = 0)
        => LET k == FirstOf(Values(c), last'.v)
           IN /\ last'.res = "ok"
              /\ k = 0 => /\ index'[c] = index[c] /\ maxSize'[c] = maxSize[c]
                          /\ data'[c] = data[c] /\ Values(c)' = Values(c)
              /\ k > 0 => /\ index'[c] = index[c] - 1
                          /\ data'[c] = SubSeq(data[c], 1, k - 1)
                                          \o SubSeq(data[c], k + 1, Len(data[c]))
                          /\ \A h \in Nodes(c)' : heap'[h] = heap[h]]_vars

\* C12: remove(v, true) terminates and erases every element equal to v,
\* skipping none (consecutive matches and a match at position 0, where the
\* loop counter wraps, included); the remaining elements keep their order and
\* size drops by the number of occurrences.
C12_RemoveAll ==
    [][\A c \in Cont :
        (Did(c, {"remove"}) /\ last'.p = 1)
        => LET keep == SelectSeq(data[c], LAMBDA h : heap[h] # last'.v)
           IN /\ last'.res = "ok"
              /\ data'[c] = keep
              /\ index'[c] = index[c] - (Len(data[c]) - Len(keep))
              /\ \A i \in 1..Len(data'[c]) : heap'[data'[c][i]] # last'.v
              /\ \A h \in Nodes(c)' : heap'[h] = heap[h]]_vars

\* the position (from 1) of node h in list d
PosIn(d, h) == CHOOSE i \in 1..Len(d) : d[i] = h

\* C13: after sort() or sort(cmp) the sequence, read through operator[] and
\* through traversal, is a permutation of the previous one ordered under the
\* comparator (natural order for sort()); elements equal under the comparator
\* keep their previous relative order; size and capacity are unchanged.
C13_SortStable ==
    [][\A c \in Cont :
        Did(c, {"sort", "sortBy"})
        => LET cmp == IF last'.op = "sort" \/ last'.p = 0 THEN "less" ELSE "greater"
               d == data'[c]
           IN /\ last'.res = "ok"
              /\ index'[c] = index[c] /\ maxSize'[c] = maxSize[c]
              /\ Len(d) = Len(data[c]) /\ Range(d) = Nodes(c) /\ heap' = heap
              /\ \A i \in 1..Len(d), j \in 1..Len(d) :
                    i < j => /\ ~Before(cmp, heap[d[j]], heap[d[i]])
                             /\ heap[d[i]] = heap[d[j]]
                                => PosIn(data[c], d[i]) < PosIn(data[c], d[j])
              /\ Consistent(c)']_vars

\* C14: shrinkToSize(n) with n >= size() changes nothing; with n < size() it
\* removes elements only from the back, leaving exactly the first n elements
\* in their order with size() == n, and sets the capacity to n.
C14_ShrinkToSize ==
    [][\A c \in Cont, n \in Pos :
        (Did(c, {"shrinkToSize"}) /\ last'.p = n /\ last'.res # "bad_alloc")
        => /\ last'.res = "ok"
           /\ n >= index[c]
              => UNCHANGED <<index, maxSize, data, tab, ptr, heap>>
           /\ n < index[c]
              => /\ index'[c] = n /\ maxSize'[c] = n /\ Len(tab'[c]) = n
                 /\ data'[c] = SubSeq(data[c], 1, n)
                 /\ \A h \in Nodes(c)' : heap'[h] = heap[h]
                 /\ Consistent(c)']_vars

\* C15: clear() empties the store and sets size() to 0 while the capacity and
\* the index table are retained unchanged; afterwards operator[] at every
\* position signals out-of-bounds, and adds up to the retained capacity
\* succeed without any growth of the table and are readable at positions
\* 0, 1, ...  (the last part as an induction step: an add below the capacity
\* on a container readable at 0..size()-1 leaves it readable at 0..size()).
C15_ClearRetainsCapacity ==
    [][\A c \in Cont :
        /\ Did(c, {"clear"})
           => /\ last'.res = "ok" /\ index'[c] = 0 /\ data'[c] = <<>>
              /\ \A h \in Nodes(c) : heap'[h] = Free
              /\ maxSize'[c] = maxSize[c] /\ tab'[c] = tab[c] /\ ptr'[c] = ptr[c]
        /\ (last.op = "clear" /\ last.c = c /\ Did(c, {"get", "set"}))
           => last'.res = "out_of_range"
        /\ (Did(c, {"add"}) /\ index[c] < maxSize[c] /\ Consistent(c))
           => /\ last'.res = "ok"
              /\ maxSize'[c] = maxSize[c] /\ ptr'[c] = ptr[c]
              /\ Len(tab'[c]) = Len(tab[c])
              /\ index'[c] = index[c] + 1 /\ Consistent(c)'
              /\ Values(c)' = Append(Values(c), last'.v)]_vars

\* C16: addAll(values) appends the values after the existing elements in the
\* given order (size grows by |values|) and resizes the index table at most
\* once, before the first element is appended: to exactly size()+|values| when
\* that exceeds the capacity, and not at all otherwise; constructing from a
\* list of n values gives capacity n, size() == n and operator[](i) equal to
\* the i-th value.
C16_AddAllSingleResize ==
    [][\A c \in Cont :
        /\ (Did(c, {"addAll"}) /\ last'.res # "bad_alloc")
           => LET n == last'.p
                  grow == index[c] + n > maxSize[c]
              IN /\ last'.res = "ok"
                 /\ index'[c] = index[c] + n
                 /\ SubSeq(data'[c], 1, Len(data[c])) = data[c]
                 /\ Values(c)' = Values(c) \o last'.v
                 /\ maxSize'[c] = (IF grow THEN index[c] + n ELSE maxSize[c])
                 /\ Len(tab'[c]) = maxSize'[c]
                 /\ ~grow => ptr'[c] = ptr[c]
                 /\ \A i \in 0..(index'[c] - 1) :
                       SlotOf(tab'[c], i) =
                           (IF i < index[c] THEN SlotOf(tab[c], i)
                            ELSE data'[c][i + 1])
        /\ (Did(c, {"DarrayList"}) /\ last'.res = "ok")
           => /\ index'[c] = last'.p /\ maxSize'[c] = last'.p
              /\ Len(tab'[c]) = last'.p
              /\ Values(c)' = last'.v
              /\ Consistent(c)']_vars

\* C17: add(v) on a full container (size() == capacity) grows the capacity to
\* double the old one, with a floor so that capacity 0 grows to a positive
\* minimum, and then stores v at position size(); add(v) on a container that
\* is not full leaves the capacity unchanged.
C17_AddGrowth ==
    [][\A c \in Cont :
        (Did(c, {"add"}) /\ last'.res # "bad_alloc")
        => /\ last'.res = "ok"
           /\ index[c] = maxSize[c]
              => /\ maxSize[c] > 0 => maxSize'[c] = 2 * maxSize[c]
                 /\ maxSize[c] = 0 => maxSize'[c] > 0
                 /\ Len(tab'[c]) = maxSize'[c]
           /\ index[c] < maxSize[c] => maxSize'[c] = maxSize[c]
           /\ index'[c] = index[c] + 1
           /\ SlotOf(tab'[c], index[c]) = data'[c][index'[c]]
           /\ heap'[data'[c][index'[c]]] = last'.v]_vars

\* the step is a call on c that reaches the `delete[] addresses` of
\* resizeAddressTable (operator new[] has succeeded)
Regrows(c) ==
    /\ last'.res # "bad_alloc"
    /\ \/ Did(c, {"add"}) /\ index[c] >= maxSize[c]
       \/ Did(c, {"addAt"}) /\ last'.p <= index[c] /\ index[c] + 1 > maxSize[c]
       \/ Did(c, {"addAll"}) /\ index[c] + last'.p > maxSize[c]
       \/ Did(c, {"shrinkToSize"}) /\ last'.p < index[c]
\* the step releases the table c points to
Releasing(c) ==
    \/ Did(c, {"~Darray"})
    \/ Did(c, {"copyAssign", "moveAssign"}) /\ last'.p # c
    \/ Regrows(c)
\* the step reads or writes a slot of the table c points to
Accessing(c) ==
    \/ Did(c, {"get", "set", "removeAt"}) /\ last'.p < index[c]
    \/ Did(c, {"remove"}) /\ index[c] > 0 /\ data[c] # <<>>
    \/ Did(c, {"sort", "sortBy"}) /\ data[c] # <<>>
    \/ Did(c, {"add"}) /\ last'.res # "bad_alloc"
    \/ Did(c, {"addAt"}) /\ last'.p <= index[c] /\ last'.res # "bad_alloc"
    \/ Did(c, {"addAll"}) /\ last'.p > 0 /\ last'.res # "bad_alloc"

\* C18: every index table allocated is released exactly once, also on the
\* paths where an allocation fails: no call releases, reads or writes a table
\* that was already released, a destroyed container holds no table, and a
\* move hands the table to exactly one owner.
C18_TableReleasedOnce ==
    [][\A c \in Cont :
        /\ (Releasing(c) \/ Accessing(c)) => ptr[c] # "dangling"
        /\ (Did(c, {"~Darray"}) /\ last'.res = "ok") => ptr'[c] = "null"
        /\ \A d \in Cont \ {c} :
              (Did(d, {"move", "moveAssign"}) /\ last'.p = c)
              => ptr'[d] = ptr[c] /\ ptr'[c] = "null"]_vars

\* C19: no operation follows an index-table slot at a position >= size(), and
\* every slot followed lies inside the allocated table and holds the address
\* of an element currently in the list; the stale addresses left in the table
\* by clear, remove, removeAt and shrinkToSize are never followed.
C19_NoStaleDeref ==
    [][\A c \in Cont :
        /\ (Did(c, {"get", "set", "removeAt"}) /\ last'.p >= index[c])
           => last'.res = "out_of_range"
        /\ (Did(c, {"get", "set", "removeAt"}) /\ last'.p < index[c])
           => /\ last'.p < Len(tab[c])
              /\ SlotOf(tab[c], last'.p) \in Nodes(c)
        /\ (Did(c, {"remove"}) /\ index[c] > 0 /\ data[c] # <<>>)
           => FaultOutcome \notin RemoveScan(0, index[c], data[c], tab[c], heap,
                                             last'.v, last'.p = 1)
        /\ (Did(c, {"shrinkToSize"}) /\ last'.p < index[c])
           => FaultOutcome \notin ShrinkScan(index[c], last'.p, data[c], tab[c],
                                             heap)]_vars

\* C20: in add, addAt and addAll the growth of the index table, when needed,
\* completes before the list is edited: when the growth's allocation fails
\* the call leaves size, capacity, the element sequence and the index table
\* exactly as they were.
C20_GrowthBeforeEdit ==
    [][\A c \in Cont :
        (Did(c, {"add", "addAt", "addAll"}) /\ last'.res = "bad_alloc")
        => UNCHANGED <<index, maxSize, data, tab, ptr, heap>>]_vars
\* the growth of a full container that holds elements has failed
C20_Witness ==
    /\ last.op = "add" /\ last.res = "bad_alloc" /\ last.c = 1
    /\ index[1] = maxSize[1] /\ index[1] > 0
=============================================================================
